---- MODULE Spec2Model ----
(***************************************************************************)
(* A model of the BinhThanhAI backend (src/server.js, the current server   *)
(* from line 247 on): the ChatData collection, the /api/data handlers, the *)
(* /api/ask pipeline (validation, literal-match query, recency fallback,   *)
(* prompt, generation call, response shaping), and the CarouselImage       *)
(* collection with its upload directory and the /api/carousel handlers.    *)
(*                                                                         *)
(* Strings are sequences of one-character strings.  JavaScript values that *)
(* arrive in a request body are tagged records (Undef, Str, Num, Null).    *)
(***************************************************************************)
EXTENDS Integers, Sequences, FiniteSets, TLC

VARIABLES geminiModel, store, now, ask, res, rx,
          carousel, uploadDir, upload, hist

\* the CarouselImage collection, the files of the upload directory, the
\* upload request in flight, and the history the carousel properties refer to
carouselVars == <<carousel, uploadDir, upload, hist>>

vars == <<geminiModel, store, now, ask, res, rx, carouselVars>>

(***************************************************************************)
(* Bounds of the model.                                                    *)
(***************************************************************************)
\* documents ever created in one behaviour of Spec
MaxDocs == 3
\* documents ever created in one behaviour of SelectSpec
MaxCorpus == 7
\* greatest identifier DELETE is aimed at in SelectSpec
MaxDeleteId == 1
\* documents ever created in one behaviour of FieldsSpec
MaxFieldDocs == 2
\* images ever stored in one behaviour of CarouselSpec
MaxImages == 2
\* files ever written to the upload directory in one behaviour of CarouselSpec
MaxFiles == 2
\* longest question of the pattern specification
MaxQLen == 2
\* longest title/content of the pattern specification
MaxTextLen == 2

(***************************************************************************)
(* JavaScript values and strings.                                          *)
(***************************************************************************)
Undef == [t |-> "undefined"]
Null == [t |-> "null"]
Str(s) == [t |-> "string", v |-> s]
Num(n) == [t |-> "number", v |-> n]

\* ToBoolean: undefined, null, '' and 0 are falsy.
Truthy(x) ==
    CASE x.t = "string" -> x.v # <<>>
      [] x.t = "number" -> x.v # 0
      [] OTHER -> FALSE

\* a || b
OrElse(a, b) == IF Truthy(a) THEN a ELSE b

WhiteSpace == {" "}

RECURSIVE trimStart(_)
trimStart(s) ==
    IF s # <<>> /\ Head(s) \in WhiteSpace THEN trimStart(Tail(s)) ELSE s

RECURSIVE trimEnd(_)
trimEnd(s) ==
    IF s # <<>> /\ s[Len(s)] \in WhiteSpace
    THEN trimEnd(SubSeq(s, 1, Len(s) - 1))
    ELSE s

\* String.prototype.trim
trim(s) == trimEnd(trimStart(s))

\* All strings over chars of length at most n.
StringsUpTo(chars, n) == UNION {[1..k -> chars] : k \in 0..n}

(***************************************************************************)
(* escapeRegex and the regular expression it feeds.                        *)
(***************************************************************************)
\* the character class of escapeRegex: [.*+?^${}()|[\]\\]
MetaChars == {".", "*", "+", "?", "^", "$", "{", "}", "(", ")", "|", "[", "]", "\\"}

\* escapeRegex that escapes nothing
escapeRegexNone(value) == value

RECURSIVE escapeRegex(_)
escapeRegex(value) ==
    IF value = <<>> THEN <<>>
    ELSE (IF Head(value) \in MetaChars
          THEN <<"\\", Head(value)>>
          ELSE <<Head(value)>>) \o escapeRegex(Tail(value))

\* Atoms of a compiled pattern.  q is the quantifier: "1", "*", "+" or "?".
Lit(c) == [k |-> "lit", c |-> c, q |-> "1"]
AnyChar == [k |-> "any", c |-> "", q |-> "1"]
Bol == [k |-> "bol", c |-> "", q |-> "1"]
Eol == [k |-> "eol", c |-> "", q |-> "1"]

SyntaxError == [error |-> TRUE, alts |-> <<>>]

\* The pattern grammar: `\c` is the literal c, `.` any character, `*` `+` `?`
\* quantify the atom before them (a `?` after a quantifier makes it lazy),
\* `^` `$` are anchors, `|` separates alternatives, `{` `}` `]` standing alone
\* are literals.  A trailing `\`, a quantifier with nothing to repeat and an
\* unescaped `(` `)` `[` (groups and classes, taken here as never closed) are
\* syntax errors.  alts are the finished alternatives, cur the current one,
\* lazy says whether the last atom already carries a lazy mark.
RECURSIVE ParsePattern(_, _, _, _)
ParsePattern(src, alts, cur, lazy) ==
    IF src = <<>> THEN [error |-> FALSE, alts |-> Append(alts, cur)]
    ELSE LET c == Head(src)
             r == Tail(src)
             last == cur[Len(cur)]
         IN  CASE c = "\\" ->
                    IF r = <<>> THEN SyntaxError
                    ELSE ParsePattern(Tail(r), alts, Append(cur, Lit(Head(r))), FALSE)
               [] c = "." -> ParsePattern(r, alts, Append(cur, AnyChar), FALSE)
               [] c = "^" -> ParsePattern(r, alts, Append(cur, Bol), FALSE)
               [] c = "$" -> ParsePattern(r, alts, Append(cur, Eol), FALSE)
               [] c = "|" -> ParsePattern(r, Append(alts, cur), <<>>, FALSE)
               [] c \in {"*", "+", "?"} ->
                    IF cur = <<>> \/ last.k \in {"bol", "eol"} THEN SyntaxError
                    ELSE IF last.q = "1"
                         THEN ParsePattern(r, alts,
                                  [cur EXCEPT ![Len(cur)].q = c], FALSE)
                         ELSE IF c = "?" /\ ~lazy
                              THEN ParsePattern(r, alts, cur, TRUE)
                              ELSE SyntaxError
               [] c \in {"(", ")", "["} -> SyntaxError
               [] OTHER -> ParsePattern(r, alts, Append(cur, Lit(c)), FALSE)

\* new RegExp(source, 'i')
RegExp(source) == ParsePattern(source, <<>>, <<>>, FALSE)

\* Canonicalize of the 'i' flag: the upper-case letter of a lower-case one.
Canonicalize(c) ==
    CASE c = "a" -> "A"
      [] c = "z" -> "Z"
      [] OTHER -> c

AtomAccepts(atom, c) ==
    \/ atom.k = "any"
    \/ atom.k = "lit" /\ Canonicalize(atom.c) = Canonicalize(c)

\* Whether atoms[k..] match text starting at position i.
RECURSIVE MatchAt(_, _, _, _)
MatchAt(atoms, k, text, i) ==
    IF k > Len(atoms) THEN TRUE
    ELSE LET a == atoms[k]
             here == i <= Len(text) /\ AtomAccepts(a, text[i])
         IN  CASE a.k = "bol" -> i = 1 /\ MatchAt(atoms, k + 1, text, i)
               [] a.k = "eol" -> i = Len(text) + 1 /\ MatchAt(atoms, k + 1, text, i)
               [] a.q = "1" -> here /\ MatchAt(atoms, k + 1, text, i + 1)
               [] a.q = "?" -> \/ MatchAt(atoms, k + 1, text, i)
                               \/ here /\ MatchAt(atoms, k + 1, text, i + 1)
               [] a.q = "*" -> \/ MatchAt(atoms, k + 1, text, i)
                               \/ here /\ MatchAt(atoms, k, text, i + 1)
               [] OTHER -> here /\ (\/ MatchAt(atoms, k + 1, text, i + 1)
                                    \/ MatchAt(atoms, k, text, i + 1))

\* regex.test(text): an unanchored search.
RegexTest(regex, text) ==
    \E n \in 1..Len(regex.alts) : \E i \in 1..(Len(text) + 1) :
        MatchAt(regex.alts[n], 1, text, i)

\* The question as a literal, case-insensitive substring of text.
ContainsLiteral(text, question) ==
    \E i \in 0..(Len(text) - Len(question)) :
        \A j \in 1..Len(question) :
            Canonicalize(text[i + j]) = Canonicalize(question[j])

(***************************************************************************)
(* The ChatData collection.                                                *)
(***************************************************************************)
TextType == <<"t", "e", "x", "t">>
WordType == <<"w", "o", "r", "d">>
\* enum of ChatDataSchema.fileType
FileTypes == {TextType, WordType}

\* new ChatData({...}) of POST /api/data with the schema's defaults; the
\* creation instant gives _id, date and createdAt.
\* a document whose htmlContent defaults to the empty string
NewChatDataEmptyHtml(body, instant) ==
    [_id |-> instant, title |-> body.title, content |-> body.content,
     fileType |-> OrElse(body.fileType, Str(TextType)),
     htmlContent |-> OrElse(body.htmlContent, Str(<<>>)),
     imageCount |-> OrElse(body.imageCount, Num(0)),
     date |-> instant, createdAt |-> instant]

NewChatData(body, instant) ==
    [_id |-> instant,
     title |-> body.title,
     content |-> body.content,
     fileType |-> OrElse(body.fileType, Str(TextType)),
     htmlContent |-> OrElse(body.htmlContent, Null),
     imageCount |-> OrElse(body.imageCount, Num(0)),
     date |-> instant,
     createdAt |-> instant]

\* Schema validation run by save(): required strings, the fileType enum.
SchemaError(doc) ==
    IF ~Truthy(doc.title) THEN "ChatData validation failed: title"
    ELSE IF ~Truthy(doc.content) THEN "ChatData validation failed: content"
    ELSE IF doc.fileType.v \notin FileTypes THEN "ChatData validation failed: fileType"
    ELSE ""

Ids(coll) == {coll[i]._id : i \in 1..Len(coll)}

RECURSIVE SelectSeq2(_, _, _)
SelectSeq2(coll, regex, acc) ==
    IF coll = <<>> THEN acc
    ELSE SelectSeq2(Tail(coll), regex,
             IF \/ RegexTest(regex, Head(coll).title.v)
                \/ RegexTest(regex, Head(coll).content.v)
             THEN Append(acc, Head(coll)) ELSE acc)

\* a find whose filter is dropped
FindMatchingAll(coll, regex) == coll

\* find({$or: [{title: {$regex}}, {content: {$regex}}]}), in natural order
FindMatching(coll, regex) == SelectSeq2(coll, regex, <<>>)

\* the position of the newest document of a non-empty collection
NewestIndex(coll) ==
    CHOOSE i \in 1..Len(coll) :
        \A j \in 1..Len(coll) : coll[j].createdAt <= coll[i].createdAt

RemoveAt(coll, i) == SubSeq(coll, 1, i - 1) \o SubSeq(coll, i + 1, Len(coll))

\* a find whose sort is dropped: natural order
SortNatural(coll) == coll

\* find().sort({createdAt: -1})
RECURSIVE SortNewestFirst(_)
SortNewestFirst(coll) ==
    IF coll = <<>> THEN <<>>
    ELSE LET i == NewestIndex(coll)
         IN  <<coll[i]>> \o SortNewestFirst(RemoveAt(coll, i))

\* a find whose limit is dropped
LimitNone(coll, n) == coll

\* .limit(n)
Limit(coll, n) == SubSeq(coll, 1, IF Len(coll) < n THEN Len(coll) ELSE n)

\* the 6 of .limit(6)
ContextLimit == 6

\* the projection sent to the client by /api/ask and POST /api/data
\* a projection that also hands out the internal createdAt
ReferenceWithCreatedAt(item) ==
    [id |-> item._id, title |-> item.title, content |-> item.content,
     fileType |-> item.fileType, htmlContent |-> item.htmlContent,
     imageCount |-> item.imageCount, date |-> item.date,
     createdAt |-> item.createdAt]

Reference(item) ==
    [id |-> item._id,
     title |-> item.title,
     content |-> item.content,
     fileType |-> item.fileType,
     htmlContent |-> item.htmlContent,
     imageCount |-> item.imageCount,
     date |-> item.date]

\* the projection of GET /api/data
Formatted(item) ==
    [id |-> item._id,
     title |-> item.title,
     content |-> item.content,
     fileType |-> OrElse(item.fileType, Str(TextType)),
     htmlContent |-> item.htmlContent,
     imageCount |-> OrElse(item.imageCount, Num(0)),
     date |-> item.date]

\* relevantData.map(item => ({...}))
References(data) == [i \in 1..Len(data) |-> Reference(data[i])]

\* data.map(item => ({...}))
FormattedData(data) == [i \in 1..Len(data) |-> Formatted(data[i])]

(***************************************************************************)
(* Messages.                                                               *)
(***************************************************************************)
MsgMissingConfig == "Thieu cau hinh Gemini API"
MsgEnterQuestion == "Vui long nhap cau hoi"
MsgCannotProcess == "Khong the xu ly yeu cau. Vui long thu lai."
MsgTitleContent == "Title and content are required"
MsgDeleted == "Deleted successfully"
\* 'Tôi chưa tìm thấy thông tin phù hợp trong dữ liệu hiện có.'
NotFoundAnswer == <<"T", "o", "i", " ", "c", "h", "u", "a", " ", "t", "i", "m", " ", "t", "h", "a", "y">>
\* 'Không có dữ liệu'
NoDataBlock == "Khong co du lieu"

\* what a rejected store operation carries in err.message
StoreErrors == {"MongoNetworkError: connection closed"}
StoreOutcomes == {"ok"} \cup StoreErrors
\* what a rejected generateContent carries in err.message
GenerationErrors == {"GoogleGenerativeAIError: fetch failed"}

(***************************************************************************)
(* Requests and responses.                                                 *)
(***************************************************************************)
\* res is what the last step sent, NoResponse when it sent nothing: the
\* endpoint, the request's input, the status and JSON body, and what the
\* request did on the way (failure: the err.message caught, "" when nothing
\* was thrown; reads: find queries it issued; genCalls: generateContent
\* calls; log: the handler's locals).
Response(ep, req, status, body, failure, reads, genCalls, log) ==
    [ep |-> ep, req |-> req, status |-> status, body |-> body,
     failure |-> failure, reads |-> reads, genCalls |-> genCalls, log |-> log]

ErrorBody(msg) == [error |-> msg]

NoResponse == Response("", Undef, 0, ErrorBody(""), "", 0, 0, <<>>)

\* no /api/ask request in flight
Idle ==
    [pc |-> "idle", req |-> Undef, question |-> <<>>, regex |-> SyntaxError,
     relevantData |-> <<>>, reads |-> 0, anyMatch |-> FALSE, fallback |-> FALSE]

RxIdle == [pc |-> "idle", question |-> <<>>, source |-> <<>>,
           regex |-> SyntaxError, result |-> <<>>]

(***************************************************************************)
(* /api/data                                                               *)
(***************************************************************************)
\* app.get('/api/data')
DataGet(outcome) ==
    /\ res' = IF outcome = "ok"
              THEN Response("GET /api/data", Undef, 200,
                       FormattedData(SortNewestFirst(store)), "", 1, 0, <<>>)
              ELSE Response("GET /api/data", Undef, 500,
                       ErrorBody(outcome), outcome, 1, 0, <<>>)
    /\ UNCHANGED <<geminiModel, store, now, ask, rx, carouselVars>>

\* app.post('/api/data')
DataPost(body, outcome) ==
    LET newData == NewChatData(body, now)
        invalid == SchemaError(newData)
    IN  /\ IF ~Truthy(body.title) \/ ~Truthy(body.content)
           THEN /\ res' = Response("POST /api/data", body, 400,
                              ErrorBody(MsgTitleContent), "", 0, 0, <<>>)
                /\ UNCHANGED <<store, now>>
           ELSE IF invalid # ""
           THEN /\ res' = Response("POST /api/data", body, 400,
                              ErrorBody(invalid), "", 0, 0, <<>>)
                /\ UNCHANGED <<store, now>>
           ELSE IF outcome # "ok"
           THEN /\ res' = Response("POST /api/data", body, 400,
                              ErrorBody(outcome), outcome, 0, 0, <<>>)
                /\ UNCHANGED <<store, now>>
           ELSE /\ store' = Append(store, newData)
                /\ now' = now + 1
                /\ res' = Response("POST /api/data", body, 200,
                              Reference(newData), "", 0, 0, <<>>)
        /\ UNCHANGED <<geminiModel, ask, rx, carouselVars>>

\* ChatData.findByIdAndDelete(id): the collection without that document
DeleteById(coll, id) == SelectSeq(coll, LAMBDA d : d._id # id)

\* a delete that answers 404 when nothing was deleted
DataDeleteStrict(id, outcome) ==
    /\ IF outcome = "ok"
       THEN /\ store' = DeleteById(store, id)
            /\ res' = IF id \in Ids(store)
                      THEN Response("DELETE /api/data/:id", Num(id), 200,
                               [message |-> MsgDeleted], "", 0, 0,
                               [deletedData |-> TRUE])
                      ELSE Response("DELETE /api/data/:id", Num(id), 404,
                               ErrorBody("Not found"), "", 0, 0,
                               [deletedData |-> FALSE])
       ELSE /\ res' = Response("DELETE /api/data/:id", Num(id), 500,
                          ErrorBody(outcome), outcome, 0, 0, <<>>)
            /\ UNCHANGED store
    /\ UNCHANGED <<geminiModel, now, ask, rx, carouselVars>>

\* app.delete('/api/data/:id')
DataDelete(id, outcome) ==
    /\ IF outcome = "ok"
       THEN /\ store' = DeleteById(store, id)
            /\ res' = Response("DELETE /api/data/:id", Num(id), 200,
                          [message |-> MsgDeleted], "", 0, 0,
                          [deletedData |-> id \in Ids(store)])
       ELSE /\ res' = Response("DELETE /api/data/:id", Num(id), 500,
                          ErrorBody(outcome), outcome, 0, 0, <<>>)
            /\ UNCHANGED store
    /\ UNCHANGED <<geminiModel, now, ask, rx, carouselVars>>

(***************************************************************************)
(* /api/ask                                                                *)
(***************************************************************************)
AskResponse(req, status, body, failure, reads, genCalls, log) ==
    Response("POST /api/ask", req, status, body, failure, reads, genCalls, log)

\* the handler with the question checked before the configuration
AskBeginQuestionFirst(q) ==
    LET given == OrElse(q, Str(<<>>))
        question == IF given.t = "string" THEN trim(given.v) ELSE <<>>
        regex == RegExp(escapeRegex(question))
    IN  /\ ask.pc = "idle"
        /\ IF given.t # "string"
           THEN /\ res' = AskResponse(q, 500, ErrorBody(MsgCannotProcess),
                              "TypeError: trim is not a function", 0, 0, <<>>)
                /\ UNCHANGED ask
           ELSE IF question = <<>>
           THEN /\ res' = AskResponse(q, 400, ErrorBody(MsgEnterQuestion), "", 0, 0, <<>>)
                /\ UNCHANGED ask
           ELSE IF ~geminiModel
           THEN /\ res' = AskResponse(q, 500, ErrorBody(MsgMissingConfig), "", 0, 0, <<>>)
                /\ UNCHANGED ask
           ELSE /\ ask' = [Idle EXCEPT !.pc = "find", !.req = q,
                                       !.question = question, !.regex = regex]
                /\ res' = NoResponse
        /\ UNCHANGED <<geminiModel, store, now, rx, carouselVars>>

\* The handler up to its first await: the configuration check, the question
\* check, the pattern.  A truthy question that is no string has no trim and
\* throws, as would a pattern that does not compile.
AskBegin(q) ==
    LET given == OrElse(q, Str(<<>>))
        question == IF given.t = "string" THEN trim(given.v) ELSE <<>>
        regex == RegExp(escapeRegex(question))
    IN  /\ ask.pc = "idle"
        /\ IF ~geminiModel
           THEN /\ res' = AskResponse(q, 500, ErrorBody(MsgMissingConfig), "", 0, 0, <<>>)
                /\ UNCHANGED ask
           ELSE IF given.t # "string"
           THEN /\ res' = AskResponse(q, 500, ErrorBody(MsgCannotProcess),
                              "TypeError: trim is not a function", 0, 0, <<>>)
                /\ UNCHANGED ask
           ELSE IF question = <<>>
           THEN /\ res' = AskResponse(q, 400, ErrorBody(MsgEnterQuestion), "", 0, 0, <<>>)
                /\ UNCHANGED ask
           ELSE IF regex.error
           THEN /\ res' = AskResponse(q, 500, ErrorBody(MsgCannotProcess),
                              "SyntaxError: Invalid regular expression", 0, 0, <<>>)
                /\ UNCHANGED ask
           ELSE /\ ask' = [Idle EXCEPT !.pc = "find", !.req = q,
                                       !.question = question, !.regex = regex]
                /\ res' = NoResponse
        /\ UNCHANGED <<geminiModel, store, now, rx, carouselVars>>

\* a literal-match query always followed by the fallback query
AskFindThenFallback(outcome) ==
    /\ ask.pc = "find"
    /\ outcome = "ok"
    /\ ask' = [ask EXCEPT
                 !.pc = "fallback",
                 !.reads = @ + 1,
                 !.anyMatch = \E i \in 1..Len(store) :
                      \/ ContainsLiteral(store[i].title.v, ask.question)
                      \/ ContainsLiteral(store[i].content.v, ask.question)]
    /\ res' = NoResponse
    /\ UNCHANGED <<geminiModel, store, now, rx, carouselVars>>

\* The literal-match query runs against the collection as it is now.
AskFind(outcome) ==
    LET relevantData == Limit(FindMatching(store, ask.regex), ContextLimit)
    IN  /\ ask.pc = "find"
        /\ IF outcome # "ok"
           THEN /\ res' = AskResponse(ask.req, 500, ErrorBody(MsgCannotProcess),
                              outcome, ask.reads + 1, 0, <<>>)
                /\ ask' = Idle
           ELSE /\ ask' = [ask EXCEPT
                             !.pc = IF Len(relevantData) = 0 THEN "fallback" ELSE "generate",
                             !.relevantData = relevantData,
                             !.reads = @ + 1,
                             !.anyMatch = \E i \in 1..Len(store) :
                                  \/ ContainsLiteral(store[i].title.v, ask.question)
                                  \/ ContainsLiteral(store[i].content.v, ask.question)]
                /\ res' = NoResponse
        /\ UNCHANGED <<geminiModel, store, now, rx, carouselVars>>

\* The fallback query: the newest documents of the collection as it is now.
AskFallback(outcome) ==
    /\ ask.pc = "fallback"
    /\ IF outcome # "ok"
       THEN /\ res' = AskResponse(ask.req, 500, ErrorBody(MsgCannotProcess),
                          outcome, ask.reads + 1, 0, <<>>)
            /\ ask' = Idle
       ELSE /\ ask' = [ask EXCEPT
                         !.pc = "generate",
                         !.relevantData = Limit(SortNewestFirst(store), ContextLimit),
                         !.reads = @ + 1,
                         !.fallback = TRUE]
            /\ res' = NoResponse
    /\ UNCHANGED <<geminiModel, store, now, rx, carouselVars>>

\* one context block of the prompt
\* a block that carries the image annotation whatever the fileType
ContextItemAnyImages(item, index) ==
    [index |-> index, title |-> item.title.v, date |-> item.date,
     content |-> item.content.v, images |-> item.imageCount.v]

ContextItem(item, index) ==
    [index |-> index, title |-> item.title.v, date |-> item.date,
     content |-> item.content.v,
     images |-> IF item.fileType.v = WordType /\ item.imageCount.v > 0
                THEN item.imageCount.v ELSE 0]

\* the prompt handed to generateContent
Prompt(question, relevantData) ==
    LET context == [i \in 1..Len(relevantData) |-> ContextItem(relevantData[i], i)]
    IN  [data |-> IF context = <<>> THEN <<NoDataBlock>> ELSE context,
         question |-> question]

\* What generateContent can come to: a rejection, or a result that is absent,
\* lacks response, lacks a text function, or whose text() throws or returns.
GenerationTexts == {<<>>, <<" ">>, <<"o", "k">>, <<" ", "o", "k", " ">>}
GenerationOutcomes ==
    {[k |-> kind, v |-> <<>>] :
        kind \in {"rejects", "no result", "no response", "no text", "text throws"}}
    \cup {[k |-> "text", v |-> t] : t \in GenerationTexts}

\* result && result.response && typeof result.response.text === 'function'
\*     ? result.response.text() : ''
AnswerOf(g) == IF g.k = "text" THEN g.v ELSE <<>>

\* the answer shaped without the trim
ShapeAnswerNoTrim(answer) == IF answer # <<>> THEN answer ELSE NotFoundAnswer

\* answer && answer.trim().length > 0 ? answer : fixed message
ShapeAnswer(answer) ==
    IF answer # <<>> /\ Len(trim(answer)) > 0 THEN answer ELSE NotFoundAnswer

\* a generation call that is made again after it was rejected
AskGenerateRetry(g) ==
    /\ ask.pc = "generate"
    /\ res' = IF g.k \in {"rejects", "text throws"}
              THEN AskResponse(ask.req, 500, ErrorBody(MsgCannotProcess),
                       CHOOSE m \in GenerationErrors : TRUE, ask.reads, 2, <<>>)
              ELSE AskResponse(ask.req, 200,
                       [answer |-> ShapeAnswer(AnswerOf(g)),
                        references |-> References(ask.relevantData)],
                       "", ask.reads, 1,
                       [question |-> ask.question, anyMatch |-> ask.anyMatch,
                        fallback |-> ask.fallback,
                        prompt |-> Prompt(ask.question, ask.relevantData),
                        generated |-> g])
    /\ ask' = Idle
    /\ UNCHANGED <<geminiModel, store, now, rx, carouselVars>>

\* The rest of the handler: prompt, the generation call, the response.
AskGenerate(g) ==
    LET prompt == Prompt(ask.question, ask.relevantData)
        log == [question |-> ask.question, anyMatch |-> ask.anyMatch,
                fallback |-> ask.fallback, prompt |-> prompt, generated |-> g]
    IN  /\ ask.pc = "generate"
        /\ res' = IF g.k \in {"rejects", "text throws"}
                  THEN AskResponse(ask.req, 500, ErrorBody(MsgCannotProcess),
                           CHOOSE m \in GenerationErrors : TRUE, ask.reads, 1, log)
                  ELSE AskResponse(ask.req, 200,
                           [answer |-> ShapeAnswer(AnswerOf(g)),
                            references |-> References(ask.relevantData)],
                           "", ask.reads, 1, log)
        /\ ask' = Idle
        /\ UNCHANGED <<geminiModel, store, now, rx, carouselVars>>

(***************************************************************************)
(* /api/carousel: the CarouselImage collection and the upload directory.   *)
(***************************************************************************)
UploadsPrefix == <<"/", "u", "p", "l", "o", "a", "d", "s", "/">>
ExternalUrl == <<"h", "t", "t", "p", ":", "/", "/", "x", "/", "1">>

startsWith(s, prefix) ==
    Len(s) >= Len(prefix) /\ SubSeq(s, 1, Len(prefix)) = prefix

DigitChars == <<"0", "1", "2", "3", "4", "5", "6", "7", "8", "9">>

\* the n-th file name that Date.now() and Math.random() produce: names are
\* taken to be fresh
FileName(n) == <<DigitChars[n + 1]>>

\* `/uploads/${filename}`
ImageUrl(filename) == UploadsPrefix \o filename

\* the file of the upload directory that path.join(__dirname, imageUrl)
\* names, for an imageUrl that starts with /uploads/
FilePath(imageUrl) ==
    SubSeq(imageUrl, Len(UploadsPrefix) + 1, Len(imageUrl))

\* what fs.unlink can answer for a file that exists; a file that does not
\* exist always answers ENOENT
UnlinkOutcomes == {"ok", "EPERM"}
UnlinkFails(dir, name, outcome) == name \notin dir \/ outcome # "ok"
Unlinked(dir, name, outcome) ==
    IF UnlinkFails(dir, name, outcome) THEN dir ELSE dir \ {name}

NaN == [t |-> "NaN"]

RECURSIVE DigitsValue(_, _)
DigitsValue(s, acc) ==
    IF s = <<>> THEN acc
    ELSE DigitsValue(Tail(s),
             10 * acc + (CHOOSE d \in 0..9 : DigitChars[d + 1] = Head(s)))

\* the cast of the schema's Number type
CastNumber(v) ==
    IF v.t = "number" THEN v
    ELSE IF /\ v.t = "string"
            /\ v.v # <<>>
            /\ \A i \in 1..Len(v.v) : \E d \in 1..10 : DigitChars[d] = v.v[i]
         THEN Num(DigitsValue(v.v, 0))
         ELSE NaN

\* new CarouselImage({title, imageUrl, alt, order}) at the given instant
NewCarouselImage(title, imageUrl, alt, order, instant) ==
    [_id |-> instant, title |-> title, imageUrl |-> imageUrl,
     alt |-> IF alt = Undef THEN Str(<<>>) ELSE alt,
     order |-> IF order = Undef THEN Num(0) ELSE CastNumber(order),
     createdAt |-> instant]

\* the message of the validation error of save(), "" when the image is valid
CarouselSchemaError(image) ==
    IF ~Truthy(image.title) THEN "CarouselImage validation failed: title"
    ELSE IF ~Truthy(image.imageUrl)
         THEN "CarouselImage validation failed: imageUrl"
    ELSE IF image.order = NaN THEN "CarouselImage validation failed: order"
    ELSE ""

RECURSIVE InsertByOrder(_, _)
InsertByOrder(sorted, image) ==
    IF sorted = <<>> THEN <<image>>
    ELSE IF image.order.v < Head(sorted).order.v THEN <<image>> \o sorted
    ELSE <<Head(sorted)>> \o InsertByOrder(Tail(sorted), image)

RECURSIVE SortByOrder(_)
SortByOrder(coll) ==
    IF coll = <<>> THEN <<>>
    ELSE InsertByOrder(SortByOrder(SubSeq(coll, 1, Len(coll) - 1)),
                       coll[Len(coll)])

MsgNoFile == "No image file provided"
MsgNoData == "No image data provided"
MsgUploaded == "Image uploaded successfully"
MsgOnlyImages == "Only image files are allowed"
MsgNotAFunction == "imageData.replace is not a function"
Untitled == <<"U", "n", "t", "i", "t", "l", "e", "d">>

\* no upload request in flight
UploadIdle == [pc |-> "idle", ep |-> "", body |-> Undef, file |-> <<>>]

\* nothing written, created or deleted yet
CarouselInit ==
    /\ carousel = <<>>
    /\ uploadDir = {}
    /\ upload = UploadIdle
    /\ hist = [written |-> 0, uploaded |-> {}, registered |-> {},
               unlinkFailed |-> FALSE]

\* what an upload request did to the upload directory
UploadLog(file, written, saved, unlinkAttempted, unlinked) ==
    [file |-> file, written |-> written, saved |-> saved,
     unlinkAttempted |-> unlinkAttempted, unlinked |-> unlinked]

\* GET /api/carousel
CarouselGet(outcome) ==
    /\ res' = IF outcome = "ok"
              THEN Response("GET /api/carousel", Undef, 200,
                       SortByOrder(carousel), "", 0, 0, <<>>)
              ELSE Response("GET /api/carousel", Undef, 500,
                       ErrorBody(outcome), outcome, 0, 0, <<>>)
    /\ UNCHANGED <<geminiModel, store, now, ask, rx, carouselVars>>

\* POST /api/carousel
CarouselPost(body, outcome) ==
    LET newImage == NewCarouselImage(body.title, body.imageUrl, body.alt,
                        OrElse(body.order, Num(0)), now)
        failure == IF CarouselSchemaError(newImage) # ""
                   THEN CarouselSchemaError(newImage)
                   ELSE IF outcome # "ok" THEN outcome ELSE ""
    IN  /\ IF failure = ""
           THEN /\ carousel' = Append(carousel, newImage)
                /\ now' = now + 1
                /\ hist' = [hist EXCEPT
                               !.registered = @ \cup {newImage.imageUrl.v}]
                /\ res' = Response("POST /api/carousel", body, 200, newImage,
                              "", 0, 0, <<>>)
           ELSE /\ res' = Response("POST /api/carousel", body, 400,
                              ErrorBody(failure), failure, 0, 0, <<>>)
                /\ UNCHANGED <<carousel, now, hist>>
        /\ UNCHANGED <<geminiModel, store, ask, rx, uploadDir, upload>>

\* the file a request writes to the upload directory before its handler
\* reaches save()
WriteUpload(ep, body) ==
    LET filename == FileName(hist.written + 1)
    IN  /\ uploadDir' = uploadDir \cup {filename}
        /\ hist' = [hist EXCEPT !.written = @ + 1]
        /\ upload' = [pc |-> "save", ep |-> ep, body |-> body,
                      file |-> filename]
        /\ res' = NoResponse

\* POST /api/carousel/upload up to save(): upload.single('image') filters
\* and stores the file, the handler builds the image.  file is "none",
\* "image" or "other" (a mimetype that is not allowed).
CarouselUploadBegin(body, file) ==
    /\ upload.pc = "idle"
    /\ CASE file = "other" ->
              /\ res' = Response("POST /api/carousel/upload", body, 500,
                            ErrorBody(MsgOnlyImages), "", 0, 0,
                            UploadLog(<<>>, FALSE, FALSE, FALSE, FALSE))
              /\ UNCHANGED <<uploadDir, upload, hist>>
         [] file = "none" ->
              /\ res' = Response("POST /api/carousel/upload", body, 400,
                            ErrorBody(MsgNoFile), "", 0, 0,
                            UploadLog(<<>>, FALSE, FALSE, FALSE, FALSE))
              /\ UNCHANGED <<uploadDir, upload, hist>>
         [] OTHER -> WriteUpload("POST /api/carousel/upload", body)
    /\ UNCHANGED <<geminiModel, store, now, ask, rx, carousel>>

\* the image an upload handler builds around the file it was given
UploadedImage(body, file, instant) ==
    NewCarouselImage(OrElse(body.title, Str(Untitled)), Str(ImageUrl(file)),
        OrElse(body.alt, Str(<<>>)), OrElse(body.order, Num(0)), instant)

\* the failure of save(): its validation error, else the store's
SaveFailure(image, outcome) ==
    IF CarouselSchemaError(image) # "" THEN CarouselSchemaError(image)
    ELSE IF outcome # "ok" THEN outcome ELSE ""

\* save() resolved: the image is stored and answered
UploadSaved(newImage) ==
    /\ carousel' = Append(carousel, newImage)
    /\ now' = now + 1
    /\ res' = Response(upload.ep, upload.body, 200,
                  [success |-> TRUE, message |-> MsgUploaded,
                   data |-> newImage], "", 0, 0,
                  UploadLog(upload.file, TRUE, TRUE, FALSE, FALSE))

\* POST /api/carousel/upload from save() on: the catch block unlinks the
\* uploaded file and answers 400
CarouselUploadSave(outcome, unlinkOutcome) ==
    LET newImage == UploadedImage(upload.body, upload.file, now)
        failure == SaveFailure(newImage, outcome)
    IN  /\ upload.pc = "save"
        /\ upload.ep = "POST /api/carousel/upload"
        /\ IF failure = ""
           THEN /\ UploadSaved(newImage)
                /\ hist' = [hist EXCEPT !.uploaded = @ \cup {newImage._id}]
                /\ UNCHANGED uploadDir
           ELSE /\ uploadDir' = Unlinked(uploadDir, upload.file, unlinkOutcome)
                /\ hist' = [hist EXCEPT !.unlinkFailed =
                      @ \/ UnlinkFails(uploadDir, upload.file, unlinkOutcome)]
                /\ res' = Response(upload.ep, upload.body, 400,
                              ErrorBody(failure), failure, 0, 0,
                              UploadLog(upload.file, TRUE, FALSE, TRUE,
                                  ~UnlinkFails(uploadDir, upload.file,
                                               unlinkOutcome)))
                /\ UNCHANGED <<carousel, now>>
        /\ upload' = UploadIdle
        /\ UNCHANGED <<geminiModel, store, ask, rx>>

\* POST /api/carousel/upload-base64 up to save(): the handler checks
\* imageData, strips its prefix, writes the file and builds the image
CarouselUploadBase64Begin(body) ==
    /\ upload.pc = "idle"
    /\ IF ~Truthy(body.imageData)
       THEN /\ res' = Response("POST /api/carousel/upload-base64", body, 400,
                          ErrorBody(MsgNoData), "", 0, 0,
                          UploadLog(<<>>, FALSE, FALSE, FALSE, FALSE))
            /\ UNCHANGED <<uploadDir, upload, hist>>
       ELSE IF body.imageData.t # "string"
       THEN /\ res' = Response("POST /api/carousel/upload-base64", body, 400,
                          ErrorBody(MsgNotAFunction), MsgNotAFunction, 0, 0,
                          UploadLog(<<>>, FALSE, FALSE, FALSE, FALSE))
            /\ UNCHANGED <<uploadDir, upload, hist>>
       ELSE WriteUpload("POST /api/carousel/upload-base64", body)
    /\ UNCHANGED <<geminiModel, store, now, ask, rx, carousel>>

\* POST /api/carousel/upload-base64 from save() on: the catch block answers
\* 400 and leaves the written file where it is
CarouselUploadBase64Save(outcome) ==
    LET newImage == UploadedImage(upload.body, upload.file, now)
        failure == SaveFailure(newImage, outcome)
    IN  /\ upload.pc = "save"
        /\ upload.ep = "POST /api/carousel/upload-base64"
        /\ IF failure = ""
           THEN /\ UploadSaved(newImage)
                /\ hist' = [hist EXCEPT !.uploaded = @ \cup {newImage._id}]
           ELSE /\ res' = Response(upload.ep, upload.body, 400,
                              ErrorBody(failure), failure, 0, 0,
                              UploadLog(upload.file, TRUE, FALSE, FALSE,
                                        FALSE))
                /\ UNCHANGED <<carousel, now, hist>>
        /\ upload' = UploadIdle
        /\ UNCHANGED <<geminiModel, store, ask, rx, uploadDir>>

\* the image findByIdAndDelete resolves to, as a sequence of at most one
FindById(coll, id) == SelectSeq(coll, LAMBDA d : d._id = id)

\* the response and the history of a DELETE whose store operation resolved
CarouselDeleted(id, found, unlinks, unlinkOutcome) ==
    /\ res' = Response("DELETE /api/carousel/:id", Num(id), 200,
                  [message |-> MsgDeleted], "", 0, 0,
                  [deleted |-> found, unlinkAttempted |-> unlinks])
    /\ IF unlinks
       THEN LET name == FilePath(found[1].imageUrl.v)
            IN  /\ uploadDir' = Unlinked(uploadDir, name, unlinkOutcome)
                /\ hist' = [hist EXCEPT !.unlinkFailed =
                               @ \/ UnlinkFails(uploadDir, name, unlinkOutcome)]
       ELSE UNCHANGED <<uploadDir, hist>>

\* a DELETE that reads the image with findById and leaves it stored
CarouselDeleteKeepsRecord(id, outcome, unlinkOutcome) ==
    LET found == FindById(carousel, id)
    IN  /\ outcome = "ok"
        /\ CarouselDeleted(id, found,
               /\ found # <<>>
               /\ Truthy(found[1].imageUrl)
               /\ startsWith(found[1].imageUrl.v, UploadsPrefix),
               unlinkOutcome)
        /\ UNCHANGED <<geminiModel, store, now, ask, rx, carousel, upload>>

\* DELETE /api/carousel/:id
CarouselDelete(id, outcome, unlinkOutcome) ==
    LET found == FindById(carousel, id)
    IN  /\ IF outcome = "ok"
           THEN /\ carousel' = DeleteById(carousel, id)
                /\ CarouselDeleted(id, found,
                       /\ found # <<>>
                       /\ Truthy(found[1].imageUrl)
                       /\ startsWith(found[1].imageUrl.v, UploadsPrefix),
                       unlinkOutcome)
           ELSE /\ res' = Response("DELETE /api/carousel/:id", Num(id), 500,
                              ErrorBody(outcome), outcome, 0, 0, <<>>)
                /\ UNCHANGED <<carousel, uploadDir, hist>>
        /\ UNCHANGED <<geminiModel, store, now, ask, rx, upload>>

(***************************************************************************)
(* The specifications.                                                     *)
(***************************************************************************)
PlainBody(title, content) ==
    [title |-> title, content |-> content, fileType |-> Undef,
     htmlContent |-> Undef, imageCount |-> Undef]

\* request bodies of POST /api/data: a document that holds "a" in another
\* case, one that holds ".", and two that lack a required field
DataBodies ==
    {PlainBody(Str(<<"A">>), Str(<<"z">>)),
     PlainBody(Str(<<"z">>), Str(<<".">>)),
     PlainBody(Undef, Str(<<"z">>)),
     PlainBody(Str(<<"z">>), Str(<<>>))}

\* req.body.question of POST /api/ask
Questions ==
    {Undef, Str(<<>>), Str(<<" ">>), Str(<<" ", "a">>), Str(<<".">>), Num(5)}

Init ==
    /\ geminiModel \in BOOLEAN
    /\ store = <<>>
    /\ now = 1
    /\ ask = Idle
    /\ res = NoResponse
    /\ rx = RxIdle
    /\ CarouselInit

\* The server's steps over the given request inputs and store outcomes, with
\* at most cap documents ever created and DELETE aimed at the identifiers
\* 0..maxId (0 is never a document's).
ServerNext(bodies, questions, generations, outcomes, cap, maxId) ==
    \/ \E o \in outcomes : DataGet(o)
    \/ \E b \in bodies, o \in outcomes : now <= cap /\ DataPost(b, o)
    \/ \E id \in 0..maxId, o \in outcomes : DataDelete(id, o)
    \/ \E q \in questions : AskBegin(q)
    \/ \E o \in outcomes : AskFind(o)
    \/ \E o \in outcomes : AskFallback(o)
    \/ \E g \in generations : AskGenerate(g)

\* The server over a small collection, every document open to deletion.
Next ==
    ServerNext(DataBodies, Questions, GenerationOutcomes, StoreOutcomes,
               MaxDocs, MaxDocs)

Spec == Init /\ [][Next]_vars

\* The server over a collection that outgrows the limit of 6: well-formed
\* documents and questions, a store that answers, deletion aimed at the
\* oldest identifiers only.
SelectBodies == {b \in DataBodies : Truthy(b.title) /\ Truthy(b.content)}
SelectQuestions == {q \in Questions : q.t = "string" /\ trim(q.v) # <<>>}
SelectGenerations == {g \in GenerationOutcomes : g.k = "rejects" \/ g.v = <<"o", "k">>}

SelectNext ==
    ServerNext(SelectBodies, SelectQuestions, SelectGenerations, {"ok"},
               MaxCorpus, MaxDeleteId)

SelectSpec == Init /\ [][SelectNext]_vars

\* The server over documents that differ in fileType, htmlContent and
\* imageCount: every title and content holds "z" and no "a".
FieldsBody(fileType, htmlContent, imageCount) ==
    [title |-> Str(<<"z">>), content |-> Str(<<"z">>), fileType |-> fileType,
     htmlContent |-> htmlContent, imageCount |-> imageCount]

Markup == <<"<", "p", ">">>

FieldBodies ==
    {FieldsBody(Undef, Undef, Undef),
     FieldsBody(Str(TextType), Str(Markup), Undef),
     FieldsBody(Undef, Undef, Num(2)),
     FieldsBody(Str(WordType), Str(Markup), Num(2)),
     FieldsBody(Str(WordType), Str(Markup), Undef),
     FieldsBody(Str(<<"p", "d", "f">>), Undef, Undef),
     PlainBody(Undef, Str(<<"z">>)),
     PlainBody(Str(<<"z">>), Str(<<>>))}

FieldQuestions == {Str(<<"z">>), Str(<<"a">>)}

FieldsNext ==
    ServerNext(FieldBodies, FieldQuestions, SelectGenerations, StoreOutcomes,
               MaxFieldDocs, MaxFieldDocs)

FieldsSpec == Init /\ [][FieldsNext]_vars

\* The carousel handlers on their own.
RegisterBody(title, imageUrl) ==
    [title |-> title, imageUrl |-> imageUrl, alt |-> Undef, order |-> Undef]

\* req.body of POST /api/carousel: the URL of the first upload, an external
\* URL, a body without imageUrl
RegisterBodies ==
    {RegisterBody(Str(<<"z">>), Str(ImageUrl(FileName(1)))),
     RegisterBody(Str(<<"z">>), Str(ExternalUrl)),
     RegisterBody(Str(<<"z">>), Undef)}

\* req.body of POST /api/carousel/upload: no field, an order that is a
\* number
UploadBodies ==
    {[title |-> Undef, alt |-> Undef, order |-> Undef],
     [title |-> Str(<<"z">>), alt |-> Undef, order |-> Str(<<"1">>)]}

FileKinds == {"none", "image", "other"}

\* req.body of POST /api/carousel/upload-base64: image data alone, image
\* data with an order that is not a number, no image data, image data that
\* is not a string
Base64Bodies ==
    {[title |-> Undef, imageData |-> Str(<<"i">>), alt |-> Undef,
      order |-> Undef],
     [title |-> Undef, imageData |-> Str(<<"i">>), alt |-> Undef,
      order |-> Str(<<"a">>)],
     [title |-> Undef, imageData |-> Undef, alt |-> Undef, order |-> Undef],
     [title |-> Undef, imageData |-> Num(5), alt |-> Undef, order |-> Undef]}

\* at most MaxFiles files are ever written and MaxImages images ever stored
CarouselNext ==
    \/ \E o \in StoreOutcomes : CarouselGet(o)
    \/ \E b \in RegisterBodies, o \in StoreOutcomes :
          now <= MaxImages /\ CarouselPost(b, o)
    \/ \E b \in UploadBodies, f \in FileKinds :
          hist.written < MaxFiles /\ CarouselUploadBegin(b, f)
    \/ \E o \in StoreOutcomes, u \in UnlinkOutcomes :
          now <= MaxImages /\ CarouselUploadSave(o, u)
    \/ \E b \in Base64Bodies :
          hist.written < MaxFiles /\ CarouselUploadBase64Begin(b)
    \/ \E o \in StoreOutcomes :
          now <= MaxImages /\ CarouselUploadBase64Save(o)
    \/ \E id \in 0..MaxImages, o \in StoreOutcomes, u \in UnlinkOutcomes :
          CarouselDelete(id, o, u)

\* the generation provider plays no part in the carousel handlers
CarouselStart == Init /\ geminiModel = TRUE

CarouselSpec == CarouselStart /\ [][CarouselNext]_vars

(***************************************************************************)
(* escapeRegex, new RegExp and test on their own: the question is drawn    *)
(* from the strings over the escaped characters and two letters, and the   *)
(* compiled pattern is tested against every text of a small corpus.        *)
(***************************************************************************)
PatternChars == MetaChars \cup {"a", "A"}
PatternQuestions == StringsUpTo(PatternChars, MaxQLen) \ {<<>>}
PatternTexts == StringsUpTo({"a", "A", ".", "\\"}, MaxTextLen)

PatternInit ==
    /\ geminiModel = TRUE
    /\ store = <<>>
    /\ now = 1
    /\ ask = Idle
    /\ res = NoResponse
    /\ rx \in {[RxIdle EXCEPT !.pc = "question", !.question = q] :
                  q \in PatternQuestions}
    /\ CarouselInit

\* escapeRegex(question)
PatternEscape ==
    /\ rx.pc = "question"
    /\ rx' = [rx EXCEPT !.pc = "escaped", !.source = escapeRegex(rx.question)]
    /\ UNCHANGED <<geminiModel, store, now, ask, res, carouselVars>>

\* new RegExp(source, 'i'), which throws on a source that does not compile
PatternCompile ==
    /\ rx.pc = "escaped"
    /\ LET regex == RegExp(rx.source)
       IN  rx' = [rx EXCEPT !.pc = IF regex.error THEN "threw" ELSE "compiled",
                            !.regex = regex]
    /\ UNCHANGED <<geminiModel, store, now, ask, res, carouselVars>>

\* $regex over the texts
PatternTest ==
    /\ rx.pc = "compiled"
    /\ rx' = [rx EXCEPT !.pc = "tested",
                        !.result = [t \in PatternTexts |-> RegexTest(rx.regex, t)]]
    /\ UNCHANGED <<geminiModel, store, now, ask, res, carouselVars>>

PatternNext == PatternEscape \/ PatternCompile \/ PatternTest

PatternSpec == PatternInit /\ [][PatternNext]_vars

(***************************************************************************)
(* The claims.                                                             *)
(***************************************************************************)
IsAsk(r) == r.ep = "POST /api/ask"
IsAnswer(r) == IsAsk(r) /\ r.status = 200
IsDelete(r) == r.ep = "DELETE /api/data/:id"

\* title or content holds the question as a literal, whatever the case
LiteralMatch(item, question) ==
    \/ ContainsLiteral(item.title.v, question)
    \/ ContainsLiteral(item.content.v, question)

AnyLiteralMatch(coll, question) ==
    \E i \in 1..Len(coll) : LiteralMatch(coll[i], question)

\* a question that is missing, empty or whitespace only
BlankQuestion(q) ==
    \/ q.t \in {"undefined", "null"}
    \/ q.t = "string" /\ \A i \in 1..Len(q.v) : q.v[i] \in WhiteSpace

BlankText(s) == \A i \in 1..Len(s) : s[i] \in WhiteSpace

\* C1: when a stored document held the question literally (in any case) as
\* the literal-match query ran, the references of the answer are at least
\* one and at most 6, each of them holds the question literally, and the
\* recency fallback was not used.
C1_ReferencesAreLiteralMatches ==
    (IsAnswer(res) /\ res.log.anyMatch) =>
        LET refs == res.body.references
        IN  /\ Len(refs) >= 1
            /\ Len(refs) <= 6
            /\ \A i \in 1..Len(refs) : LiteralMatch(refs[i], res.log.question)
            /\ ~res.log.fallback

\* an answer whose 6 references were cut from 7 stored literal matches
C1_Witness ==
    /\ IsAnswer(res)
    /\ res.log.anyMatch
    /\ Len(res.body.references) = 6
    /\ Len(store) = 7
    /\ \A i \in 1..Len(store) : LiteralMatch(store[i], res.log.question)

\* sel is the min(6, size) newest documents of coll, newest first
IsNewestFirstTop(sel, coll) ==
    /\ Len(sel) = (IF Len(coll) < 6 THEN Len(coll) ELSE 6)
    /\ \A i \in 1..Len(sel) : \E j \in 1..Len(coll) : sel[i] = coll[j]
    /\ \A i, j \in 1..Len(sel) : i < j => sel[i].createdAt > sel[j].createdAt
    /\ \A j \in 1..Len(coll) :
          (\A i \in 1..Len(sel) : sel[i] # coll[j]) =>
              \A i \in 1..Len(sel) : coll[j].createdAt < sel[i].createdAt

\* C2: when the literal-match query runs over a collection in which no
\* document holds the question literally, the request goes on to the
\* fallback query, and the set that query selects is the min(6, size) newest
\* documents of the collection, newest first (empty only for an empty
\* collection).
C2_FallbackSelectsNewestFirst ==
    [][/\ (ask.pc = "find" /\ ask'.pc \in {"fallback", "generate"}
              /\ ~AnyLiteralMatch(store, ask.question))
          => ask'.pc = "fallback"
       /\ (ask.pc = "fallback" /\ ask'.pc = "generate")
          => /\ IsNewestFirstTop(ask'.relevantData, store)
             /\ (ask'.relevantData = <<>> <=> store = <<>>)]_vars

\* the fallback selected 6 of 7 stored documents, none a literal match
C2_Witness ==
    /\ ask.pc = "generate"
    /\ ask.fallback
    /\ ~ask.anyMatch
    /\ Len(ask.relevantData) = 6
    /\ Len(store) = 7
    /\ ask.relevantData[1] = store[7]

\* C3: the selected set, and the references of every answer, have between 0
\* and 6 elements.
C3_AtMostSixSelected ==
    /\ Len(ask.relevantData) \in 0..6
    /\ IsAnswer(res) => Len(res.body.references) \in 0..6

\* an answer with 6 references out of a collection of more than 6
C3_Witness ==
    /\ IsAnswer(res)
    /\ Len(res.body.references) = 6
    /\ Len(store) > 6
    /\ res.log.fallback

HasMetaChar(question) == \E i \in 1..Len(question) : question[i] \in MetaChars

\* C4: for a non-empty question that holds pattern metacharacters, building
\* the pattern never throws, the pattern is the question's characters one by
\* one as literals (no wildcard, quantifier, anchor or alternative), and it
\* matches a text exactly when the text holds the question as a literal
\* substring, whatever the case.
C4_EscapedPatternIsLiteral ==
    HasMetaChar(rx.question) =>
        /\ rx.pc # "threw"
        /\ rx.pc \in {"compiled", "tested"} =>
              /\ Len(rx.regex.alts) = 1
              /\ rx.regex.alts[1] = [i \in 1..Len(rx.question) |-> Lit(rx.question[i])]
        /\ rx.pc = "tested" =>
              \A t \in DOMAIN rx.result :
                  rx.result[t] <=> ContainsLiteral(t, rx.question)

\* the question a. was tested: it matches A. and does not match aa
C4_Witness ==
    /\ rx.pc = "tested"
    /\ rx.question = <<"a", ".">>
    /\ rx.result[<<"A", ".">>]
    /\ ~rx.result[<<"a", "a">>]

\* C5: the answer of every 200 response holds a character that is not
\* whitespace: it is the fixed message when the generation result is absent,
\* has no response or no text function, or yields empty or whitespace-only
\* text, and the generated text unchanged otherwise.
C5_AnswerNeverBlank ==
    IsAnswer(res) =>
        LET g == res.log.generated
            answer == res.body.answer
        IN  /\ \E i \in 1..Len(answer) : answer[i] \notin WhiteSpace
            /\ (g.k # "text" \/ BlankText(g.v)) => answer = NotFoundAnswer
            /\ (g.k = "text" /\ ~BlankText(g.v)) => answer = g.v

\* whitespace-only generated text was replaced by the fixed message
C5_Witness ==
    /\ IsAnswer(res)
    /\ res.log.generated = [k |-> "text", v |-> <<" ">>]
    /\ res.body.answer = NotFoundAnswer

\* C6 as stated: a request with a blank question is answered 400 in every
\* configuration, and document selection is not invoked for it.
C6_BlankQuestionAlways400 ==
    /\ ask.pc # "idle" => ~BlankQuestion(ask.req)
    /\ (IsAsk(res) /\ BlankQuestion(res.req)) => res.status = 400 /\ res.reads = 0

\* C6 amended: a request with a blank question is answered 400 with the
\* validation message when the generation provider is configured and 500
\* with the fixed configuration message when it is not; in both cases
\* document selection is not invoked for it.
C6_BlankQuestion400WhenConfigured ==
    /\ ask.pc # "idle" => ~BlankQuestion(ask.req)
    /\ (IsAsk(res) /\ BlankQuestion(res.req)) =>
          /\ res.reads = 0
          /\ geminiModel => res.status = 400 /\ res.body = ErrorBody(MsgEnterQuestion)
          /\ ~geminiModel => res.status = 500 /\ res.body = ErrorBody(MsgMissingConfig)

\* a whitespace-only question was answered 400
C6_Witness ==
    /\ IsAsk(res)
    /\ res.req = Str(<<" ">>)
    /\ res.status = 400
    /\ store # <<>>

\* C7: a request makes at most one generation call; none when the provider
\* is not configured (500 with the fixed configuration message) and none
\* when, the provider configured, the question is blank (400); when the one
\* call throws the response is 500 and its body has neither answer nor
\* references.
C7_GenerationAtMostOnce ==
    IsAsk(res) =>
        /\ res.genCalls \in {0, 1}
        /\ ~geminiModel =>
              /\ res.genCalls = 0
              /\ res.status = 500
              /\ res.body = ErrorBody(MsgMissingConfig)
        /\ (geminiModel /\ BlankQuestion(res.req)) =>
              res.genCalls = 0 /\ res.status = 400
        /\ res.failure \in GenerationErrors =>
              /\ res.genCalls = 1
              /\ res.status = 500
              /\ DOMAIN res.body = {"error"}
        /\ res.status = 200 => res.genCalls = 1

\* the one generation call was rejected and the response is 500
C7_Witness ==
    /\ IsAsk(res)
    /\ res.genCalls = 1
    /\ res.failure \in GenerationErrors
    /\ res.status = 500

\* C8 as stated: every request issues at most one read query.
C8_AtMostOneRead ==
    /\ ask.reads <= 1
    /\ res.reads <= 1

\* C8 amended: every request issues at most two read queries and only
\* POST /api/ask more than one: an answered request has read once when the
\* literal match found something and twice (the fallback query) exactly when
\* it found nothing.
C8_SecondReadOnlyOnFallback ==
    /\ ask.reads <= 2
    /\ res.reads <= 2
    /\ ~IsAsk(res) => res.reads <= 1
    /\ IsAnswer(res) =>
          /\ res.log.fallback <=> ~res.log.anyMatch
          /\ res.reads = (IF res.log.anyMatch THEN 1 ELSE 2)

\* an answered request that read the store twice
C8_Witness ==
    /\ IsAnswer(res)
    /\ res.reads = 2
    /\ res.body.references # <<>>

\* messages that carry no detail of what was thrown
GenericMessages == {MsgCannotProcess}

\* C9: in every endpoint, a response that follows a failed store operation
\* or a failed generation call is 500 and its error message is a fixed
\* generic text, not the message of what was thrown.
C9_FailuresAnswerGeneric500 ==
    res.failure \in (StoreErrors \cup GenerationErrors) =>
        /\ res.status = 500
        /\ res.body.error \in GenericMessages
        /\ res.body.error # res.failure

IsPost(r) == r.ep = "POST /api/data"

\* C11: after any sequence of POST /api/data and DELETE /api/data/:id
\* requests, every stored document whose fileType is text has a null
\* htmlContent, whatever fileType and htmlContent the clients submitted.
C11_TextHasNoHtml ==
    \A i \in 1..Len(store) :
        store[i].fileType = Str(TextType) => store[i].htmlContent = Null

IsUpload(r) ==
    r.ep \in {"POST /api/carousel/upload", "POST /api/carousel/upload-base64"}

\* C12: in both upload endpoints, when the write of the CarouselImage record
\* fails after the file was written to the upload directory, a deletion of
\* that file is attempted, and when the deletion succeeds the file is gone.
C12_FailedUploadUnlinksFile ==
    (IsUpload(res) /\ res.log.written /\ ~res.log.saved) =>
        /\ res.log.unlinkAttempted
        /\ res.log.unlinked => res.log.file \notin uploadDir

ReferenceFields ==
    {"id", "title", "content", "fileType", "htmlContent", "imageCount", "date"}

\* ref is the document item under the seven fields of a reference
IsProjectionOf(ref, item) ==
    /\ DOMAIN ref = ReferenceFields
    /\ ref.id = item._id
    /\ ref.title = item.title
    /\ ref.content = item.content
    /\ ref.fileType = item.fileType
    /\ ref.htmlContent = item.htmlContent
    /\ ref.imageCount = item.imageCount
    /\ ref.date = item.date

\* C13: the references of every successful POST /api/ask response are the
\* documents that were rendered into the prompt: as many, in the same
\* order, each projected to id, title, content, fileType, htmlContent,
\* imageCount and date and to no other field.
C13_ReferencesAreThePromptDocuments ==
    [][IsAnswer(res') =>
          LET refs == res'.body.references
              data == ask.relevantData
              blocks == res'.log.prompt.data
          IN  /\ Len(refs) = Len(data)
              /\ \A i \in 1..Len(refs) : IsProjectionOf(refs[i], data[i])
              /\ refs # <<>> =>
                    /\ Len(blocks) = Len(refs)
                    /\ \A i \in 1..Len(refs) :
                          /\ blocks[i].index = i
                          /\ blocks[i].title = refs[i].title.v
                          /\ blocks[i].content = refs[i].content.v
                          /\ blocks[i].date = refs[i].date
              /\ refs = <<>> => blocks = <<NoDataBlock>>]_vars

\* an answer with two references, the newer first, one of them a Word
\* document with markup and images
C13_Witness ==
    /\ IsAnswer(res)
    /\ Len(res.body.references) = 2
    /\ res.body.references[1].id > res.body.references[2].id
    /\ \E i \in 1..2 :
          /\ res.body.references[i].fileType = Str(WordType)
          /\ res.body.references[i].htmlContent = Str(Markup)
          /\ res.body.references[i].imageCount = Num(2)

\* title or content of the body is missing or empty
LacksTitleOrContent(body) ==
    \/ body.title = Undef \/ body.title = Str(<<>>)
    \/ body.content = Undef \/ body.content = Str(<<>>)

\* the step added exactly one document, made of the body, with fileType,
\* htmlContent and imageCount text, null and 0 where the body has none
CreatesOneFrom(body) ==
    /\ Len(store') = Len(store) + 1
    /\ SubSeq(store', 1, Len(store)) = store
    /\ LET newData == store'[Len(store')]
       IN  /\ newData._id \notin Ids(store)
           /\ newData.title = body.title
           /\ newData.content = body.content
           /\ newData.fileType =
                 (IF body.fileType = Undef THEN Str(TextType)
                  ELSE body.fileType)
           /\ newData.htmlContent =
                 (IF body.htmlContent = Undef THEN Null ELSE body.htmlContent)
           /\ newData.imageCount =
                 (IF body.imageCount = Undef THEN Num(0) ELSE body.imageCount)

\* C14 as stated: a POST /api/data whose title or content is missing or
\* empty answers 400 and creates no document; with both present it creates
\* exactly one document with the defaults text, null and 0.
C14_PostCreatesWhenBothPresent ==
    [][IsPost(res') =>
          IF LacksTitleOrContent(res'.req)
          THEN res'.status = 400 /\ store' = store
          ELSE CreatesOneFrom(res'.req)]_vars

\* C14, amended: a POST /api/data whose title or content is missing or
\* empty answers 400 and creates no document; with both present, a fileType
\* that is absent, text or word, and a store that accepts the write, it
\* answers 200 and creates exactly one document with the defaults text,
\* null and 0; with both present and another fileType or a store that
\* rejects the write it answers 400 and creates no document.
C14_PostCreatesWhenSaveResolves ==
    [][IsPost(res') =>
          IF LacksTitleOrContent(res'.req)
          THEN res'.status = 400 /\ store' = store
          ELSE IF /\ res'.req.fileType \in {Undef, Str(TextType), Str(WordType)}
                  /\ res'.failure \notin StoreErrors
               THEN res'.status = 200 /\ CreatesOneFrom(res'.req)
               ELSE res'.status = 400 /\ store' = store]_vars

\* a POST that gave title and content only created a second document, a
\* text document without markup or images
C14_Witness ==
    /\ IsPost(res)
    /\ res.status = 200
    /\ res.req.fileType = Undef
    /\ res.req.htmlContent = Undef
    /\ res.req.imageCount = Undef
    /\ Len(store) = 2
    /\ store[2]._id = res.body.id
    /\ store[2].fileType = Str(TextType)
    /\ store[2].htmlContent = Null
    /\ store[2].imageCount = Num(0)

\* the request reached the prompt: it called generateContent
IsPrompted(r) == IsAsk(r) /\ r.genCalls = 1

\* C15: the context section of the prompt is the fixed no-data placeholder
\* when the selected list is empty; otherwise it is one block per selected
\* document, numbered 1..n in list order, and a block carries the Word image
\* annotation (with the document's imageCount) exactly when the document has
\* fileType word and imageCount > 0.
C15_PromptContext ==
    [][IsPrompted(res') =>
          LET data == ask.relevantData
              blocks == res'.log.prompt.data
          IN  /\ data = <<>> => blocks = <<NoDataBlock>>
              /\ data # <<>> =>
                    /\ Len(blocks) = Len(data)
                    /\ \A i \in 1..Len(data) :
                          /\ blocks[i].index = i
                          /\ blocks[i].title = data[i].title.v
                          /\ blocks[i].content = data[i].content.v
                          /\ blocks[i].date = data[i].date
                          /\ blocks[i].images > 0 <=>
                                /\ data[i].fileType = Str(WordType)
                                /\ data[i].imageCount.v > 0
                          /\ blocks[i].images > 0 =>
                                blocks[i].images = data[i].imageCount.v]_vars

\* a prompt of two blocks: a Word document with images, annotated, and a
\* text document with an imageCount, not annotated
C15_Witness ==
    /\ IsAnswer(res)
    /\ Len(res.log.prompt.data) = 2
    /\ \E i, j \in 1..2 :
          /\ res.body.references[i].fileType = Str(WordType)
          /\ res.log.prompt.data[i].images = 2
          /\ res.body.references[j].fileType = Str(TextType)
          /\ res.body.references[j].imageCount = Num(2)
          /\ res.log.prompt.data[j].images = 0

\* C16: whatever POST /api/data and DELETE /api/data/:id requests run
\* between the steps of a POST /api/ask request, the references of its
\* answer are either all literal matches of the question or hold no literal
\* match at all.
C16_ReferencesNeverMixed ==
    IsAnswer(res) =>
        LET refs == res.body.references
        IN  \/ \A i \in 1..Len(refs) : LiteralMatch(refs[i], res.log.question)
            \/ \A i \in 1..Len(refs) : ~LiteralMatch(refs[i], res.log.question)

IsCarouselDelete(r) == r.ep = "DELETE /api/carousel/:id"

\* the image was created by an upload endpoint and its imageUrl starts with
\* /uploads/
IsUploaded(image) ==
    /\ image._id \in hist'.uploaded
    /\ startsWith(image.imageUrl.v, UploadsPrefix)

\* some image stored through POST /api/carousel named the same file
IsShared(image) ==
    \E url \in hist'.registered :
        /\ startsWith(url, UploadsPrefix)
        /\ FilePath(url) = FilePath(image.imageUrl.v)

\* the step deleted the image of the requested identifier, whose imageUrl
\* starts with /uploads/ and names the file
DeletedImageOf(file) ==
    \E i \in 1..Len(carousel) :
        /\ carousel[i]._id = res'.req.v
        /\ carousel[i]._id \notin Ids(carousel')
        /\ startsWith(carousel[i].imageUrl.v, UploadsPrefix)
        /\ FilePath(carousel[i].imageUrl.v) = file

\* C17 as stated: as long as no file deletion has failed, every stored image
\* that an upload endpoint created under an /uploads/ URL has its file in the
\* upload directory; a DELETE removes a file only when it deleted an image
\* with that /uploads/ URL, and never a file that a remaining image refers
\* to.
C17_UploadedImagesKeepFiles ==
    [][/\ ~hist'.unlinkFailed =>
             \A i \in 1..Len(carousel') :
                 IsUploaded(carousel'[i]) =>
                     FilePath(carousel'[i].imageUrl.v) \in uploadDir'
       /\ IsCarouselDelete(res') =>
             \A file \in uploadDir \ uploadDir' :
                 /\ DeletedImageOf(file)
                 /\ \A j \in 1..Len(carousel') :
                       carousel'[j].imageUrl.v # ImageUrl(file)]_vars

\* C17, amended: as long as no file deletion has failed, every stored image
\* that an upload endpoint created under an /uploads/ URL, and whose file no
\* image stored through POST /api/carousel ever named, has its file in the
\* upload directory; a DELETE removes a file only when it deleted an image
\* whose /uploads/ URL names that file.
C17_UnsharedUploadsKeepFiles ==
    [][/\ ~hist'.unlinkFailed =>
             \A i \in 1..Len(carousel') :
                 (IsUploaded(carousel'[i]) /\ ~IsShared(carousel'[i])) =>
                     FilePath(carousel'[i].imageUrl.v) \in uploadDir'
       /\ IsCarouselDelete(res') =>
             \A file \in uploadDir \ uploadDir' : DeletedImageOf(file)]_vars

\* a DELETE removed the file of the uploaded image it deleted, and another
\* uploaded image, whose file no registered image names, remains with its
\* file
C17_Witness ==
    /\ IsCarouselDelete(res)
    /\ res.status = 200
    /\ res.log.unlinkAttempted
    /\ ~hist.unlinkFailed
    /\ FilePath(res.log.deleted[1].imageUrl.v) \notin uploadDir
    /\ \E i \in 1..Len(carousel) :
          /\ carousel[i]._id \in hist.uploaded
          /\ carousel[i].imageUrl.v \notin hist.registered
          /\ FilePath(carousel[i].imageUrl.v) \in uploadDir

====
